---- MODULE Spec2Model ----
(***************************************************************************)
(* Model of the xtra-equip marketplace server: the express routes, the     *)
(* verifyToken / verifySeller / verifyAdmin middleware chain and the       *)
(* users and products collections they read and write.                    *)
(*                                                                         *)
(* Every await on a collection is one atomic step; a handler that awaits   *)
(* twice (POST /users, PUT /users/seller/:id) is two steps. A request      *)
(* lives in a slot of reqs from its arrival to its response. Its query,    *)
(* params and body are drawn where the handler first reads them.           *)
(*                                                                         *)
(* The server is checked in five parts, each a specification over the      *)
(* same actions: SpecUsers (concurrent registration), SpecToken (token     *)
(* issue and expiry), SpecRoles (role checks under role updates and        *)
(* deletions), SpecProducts (the sellers' product routes) and SpecCascade  *)
(* (the role update and its cascade onto the products). Time is counted    *)
(* in hours; _id values are small integers, generated in order.            *)
(***************************************************************************)
EXTENDS Integers, FiniteSets, TLC

\* ---------------------------------------------------------------- bounds
MaxSlots == 2
MaxUsers == 2
MaxProducts == 1
MaxTokens == 2
MaxClock == 10
TickStep == 5

\* ------------------------------------------------------------- constants
\* expiresIn: "10h"
TokenTTL == 10

Absent == "absent"
Empty == ""
Yes == "true"
No == "false"

Emails == {"a@x", "b@x"}
EmailArg == Emails \cup {Absent}
Roles == {"buyer", "seller", "admin"}
RoleArg == Roles \cup {Absent, Empty}

Slots == 1..MaxSlots
\* the _id no insert ever generated: what a client sends for a document that never existed
GhostId == 0

Fields == {"email", "userRole", "sellerEmail", "isAdvertised", "isReported"}
NoBody == [f \in Fields |-> Absent]

\* request bodies the clients send
UserBodies == {[NoBody EXCEPT !.email = e, !.userRole = r] : e \in Emails, r \in RoleArg}
UserUpdates == {[NoBody EXCEPT !.userRole = r] : r \in Roles}
ProductBodies == {[NoBody EXCEPT !.sellerEmail = e] : e \in Emails}
ProductUpdates == {[NoBody EXCEPT !.isReported = Yes]}

\* the middleware chain of each protected route
Routes ==
  [postProducts     |-> [role |-> "seller"],
   getProducts      |-> [role |-> "seller"],
   getReported      |-> [role |-> "admin"],
   deleteReported   |-> [role |-> "admin"],
   deleteProduct    |-> [role |-> "seller"],
   putProduct       |-> [role |-> Absent],
   putAdvertisement |-> [role |-> "seller"],
   getUsersAdmin    |-> [role |-> Absent],
   putUsersSeller   |-> [role |-> "admin"],
   deleteUser       |-> [role |-> "admin"]]

ProtectedRoutes == DOMAIN Routes

VARIABLES users, products, nextUserId, nextProductId, clock, issued, reqs

vars == <<users, products, nextUserId, nextProductId, clock, issued, reqs>>

\* ------------------------------------------------------ document store
NewDoc(id, body) == [f \in Fields \cup {"id"} |-> IF f = "id" THEN id ELSE body[f]]

\* { $set: update }
SetFields(doc, update) ==
  [f \in DOMAIN doc |-> IF f \in Fields /\ update[f] # Absent THEN update[f] ELSE doc[f]]

Match(doc, query) == \A f \in DOMAIN query : doc[f] = query[f]

Find(coll, query) == {d \in coll : Match(d, query)}

\* deleteOne(query): the possible results [coll, n]
DeleteOne(coll, query) ==
  IF Find(coll, query) = {}
    THEN {[coll |-> coll, n |-> 0]}
    ELSE {[coll |-> coll \ {d}, n |-> 1] : d \in Find(coll, query)}

\* the document an upsert inserts: the query's equality fields, then $set
UpsertDoc(id, query, update) ==
  SetFields(NewDoc(id, [f \in Fields |-> IF f \in DOMAIN query THEN query[f] ELSE Absent]),
            update)

\* updateOne({..., _id}, { $set: update }, { upsert: true })
UpdateOne(coll, query, update) ==
  IF Find(coll, query) # {}
    THEN {[coll |-> (coll \ {d}) \cup {SetFields(d, update)}, n |-> 1, msg |-> "matched"] :
            d \in Find(coll, query)}
    ELSE IF \E d \in coll : d.id = query.id
      THEN {[coll |-> coll, n |-> 0, msg |-> "E11000"]}
      ELSE {[coll |-> coll \cup {UpsertDoc(query.id, query, update)}, n |-> 0,
             msg |-> "upserted"]}

\* updateMany(query, { $set: update }, { upsert: true }); newId is the generated _id
UpdateMany(coll, query, update, newId) ==
  IF Find(coll, query) # {}
    THEN [coll |-> {IF Match(d, query) THEN SetFields(d, update) ELSE d : d \in coll},
          n |-> Cardinality(Find(coll, query)), msg |-> "matched"]
    ELSE [coll |-> coll \cup {UpsertDoc(newId, query, update)}, n |-> 0, msg |-> "upserted"]

\* ------------------------------------------------------------- tokens
NoHeader == [kind |-> "none", email |-> Absent, iat |-> 0]
GarbageHeader == [kind |-> "garbage", email |-> Absent, iat |-> 0]

\* jwt.sign({ email }, secret, { expiresIn: "10h" })
JwtSign(email, now) == [kind |-> "token", email |-> email, iat |-> now]

\* faulty variant: the expiry test is off by one, a token is still good at iat + TokenTTL
JwtVerifyErrLate(token, now) ==
  \/ token.kind # "token"
  \/ now > token.iat + TokenTTL

\* jwt.verify(token, secret, cb): err is set for a bad signature or an expired token
JwtVerifyErr(token, now) ==
  \/ token.kind # "token"
  \/ now >= token.iat + TokenTTL

\* ------------------------------------------------------------ requests
\* a request slot: where the request is in its chain (pc), what it carries, what was sent
Idle == [pc |-> "idle", route |-> Absent, auth |-> NoHeader, decoded |-> Absent, id |-> 0,
         qemail |-> Absent, body |-> NoBody, status |-> 0, msg |-> Absent, n |-> 0]

Free(s) == reqs[s].pc \in {"idle", "done"}

\* a new request takes the lowest free slot
Accepts(s) == Free(s) /\ \A t \in Slots : t < s => ~Free(t)

\* res.status(status).send(...): the request is over, the slot keeps what was sent
Send(req, status, msg, n) ==
  [req EXCEPT !.pc = "done", !.decoded = Absent, !.status = status, !.msg = msg, !.n = n]

\* the _id values a client can name: the generated ones and one that never existed
UserIdArg == GhostId..(nextUserId - 1)
ProductIdArg == GhostId..(nextProductId - 1)

Init ==
  /\ users = {}
  /\ products = {}
  /\ nextUserId = 1
  /\ nextProductId = 1
  /\ clock = 0
  /\ issued = {}
  /\ reqs = [s \in Slots |-> Idle]

\* time passes
Tick ==
  /\ clock + TickStep <= MaxClock
  /\ clock' = clock + TickStep
  /\ UNCHANGED <<users, products, nextUserId, nextProductId, issued, reqs>>

\* faulty variant: a missing header falls through to jwt.verify and is answered 403
VerifyTokenNoHeaderTest(s, route) ==
  /\ Accepts(s)
  /\ \E header \in {NoHeader, GarbageHeader} \cup issued :
       LET req == [Idle EXCEPT !.route = route, !.auth = header]
       IN  reqs' = [reqs EXCEPT ![s] =
             IF JwtVerifyErr(header, clock)
               THEN Send(req, 403, "Forbidden access", 0)
               ELSE [req EXCEPT !.decoded = header.email,
                       !.pc = IF Routes[route].role = Absent THEN "handler" ELSE "role"]]
  /\ UNCHANGED <<users, products, nextUserId, nextProductId, clock, issued>>

\* const verifyToken = (req, res, next) => ..., first in the chain of a protected route
VerifyToken(s, route) ==
  /\ Accepts(s)
  /\ \E header \in {NoHeader, GarbageHeader} \cup issued :
       LET req == [Idle EXCEPT !.route = route, !.auth = header]
       IN  reqs' = [reqs EXCEPT ![s] =
             IF header.kind = "none"
               THEN Send(req, 401, "Unauthorized access", 0)
               ELSE IF JwtVerifyErr(header, clock)
                 THEN Send(req, 403, "Forbidden access", 0)
                 ELSE [req EXCEPT !.decoded = header.email,
                         !.pc = IF Routes[route].role = Absent THEN "handler" ELSE "role"]]
  /\ UNCHANGED <<users, products, nextUserId, nextProductId, clock, issued>>

\* faulty variant: the role is tested only when a record was found
VerifyAdminLax(s) ==
  /\ reqs[s].pc = "role"
  /\ Routes[reqs[s].route].role = "admin"
  /\ \/ \E user \in Find(users, [email |-> reqs[s].decoded]) :
          reqs' = [reqs EXCEPT ![s] =
            IF user.userRole # "admin"
              THEN Send(reqs[s], 403, "Forbidden access", 0)
              ELSE [reqs[s] EXCEPT !.pc = "handler"]]
     \/ /\ Find(users, [email |-> reqs[s].decoded]) = {}
        /\ reqs' = [reqs EXCEPT ![s].pc = "handler"]
  /\ UNCHANGED <<users, products, nextUserId, nextProductId, clock, issued>>

\* const verifyAdmin = async (req, res, next) => ...
\* findOne returns one of the records with that email, which one is the store's choice
VerifyAdmin(s) ==
  /\ reqs[s].pc = "role"
  /\ Routes[reqs[s].route].role = "admin"
  /\ \/ \E user \in Find(users, [email |-> reqs[s].decoded]) :
          reqs' = [reqs EXCEPT ![s] =
            IF user.userRole # "admin"
              THEN Send(reqs[s], 403, "Forbidden access", 0)
              ELSE [reqs[s] EXCEPT !.pc = "handler"]]
     \/ /\ Find(users, [email |-> reqs[s].decoded]) = {}
        /\ reqs' = [reqs EXCEPT ![s] = Send(reqs[s], 403, "Forbidden access", 0)]
  /\ UNCHANGED <<users, products, nextUserId, nextProductId, clock, issued>>

\* const verifySeller = async (req, res, next) => ...
VerifySeller(s) ==
  /\ reqs[s].pc = "role"
  /\ Routes[reqs[s].route].role = "seller"
  /\ \/ \E user \in Find(users, [email |-> reqs[s].decoded]) :
          reqs' = [reqs EXCEPT ![s] =
            IF user.userRole # "seller"
              THEN Send(reqs[s], 403, "Forbidden access", 0)
              ELSE [reqs[s] EXCEPT !.pc = "handler"]]
     \/ /\ Find(users, [email |-> reqs[s].decoded]) = {}
        /\ reqs' = [reqs EXCEPT ![s] = Send(reqs[s], 403, "Forbidden access", 0)]
  /\ UNCHANGED <<users, products, nextUserId, nextProductId, clock, issued>>

InHandler(s, route) == reqs[s].pc = "handler" /\ reqs[s].route = route

\* app.post("/products", verifyToken, verifySeller, ...)
PostProducts(s) ==
  /\ InHandler(s, "postProducts")
  /\ nextProductId <= MaxProducts
  /\ \E product \in ProductBodies :
       /\ products' = products \cup {NewDoc(nextProductId, product)}
       /\ reqs' = [reqs EXCEPT ![s] =
            Send([Idle EXCEPT !.route = "postProducts", !.body = product], 200, "inserted", 1)]
  /\ nextProductId' = nextProductId + 1
  /\ UNCHANGED <<users, nextUserId, clock, issued>>

\* app.get("/products", verifyToken, verifySeller, ...)
GetProducts(s) ==
  /\ InHandler(s, "getProducts")
  /\ \E sellerEmail \in EmailArg :
       reqs' = [reqs EXCEPT ![s] =
         Send([Idle EXCEPT !.route = "getProducts", !.qemail = sellerEmail], 200, "result",
              Cardinality(Find(products, [sellerEmail |-> sellerEmail])))]
  /\ UNCHANGED <<users, products, nextUserId, nextProductId, clock, issued>>

\* app.get("/products/reported", verifyToken, verifyAdmin, ...)
GetReported(s) ==
  /\ InHandler(s, "getReported")
  /\ reqs' = [reqs EXCEPT ![s] =
       Send([Idle EXCEPT !.route = "getReported"], 200, "result",
            Cardinality(Find(products, [isReported |-> Yes])))]
  /\ UNCHANGED <<users, products, nextUserId, nextProductId, clock, issued>>

\* app.delete("/products/reported/:id", verifyToken, verifyAdmin, ...)
DeleteReported(s) ==
  /\ InHandler(s, "deleteReported")
  /\ \E productId \in ProductIdArg :
       \E result \in DeleteOne(products, [id |-> productId]) :
         /\ products' = result.coll
         /\ reqs' = [reqs EXCEPT ![s] =
              Send([Idle EXCEPT !.route = "deleteReported", !.id = productId],
                   200, "deleted", result.n)]
  /\ UNCHANGED <<users, nextUserId, nextProductId, clock, issued>>

\* faulty variant: the query names the _id alone
DeleteProductById(s) ==
  /\ InHandler(s, "deleteProduct")
  /\ \E productId \in ProductIdArg, sellerEmail \in EmailArg :
       \E result \in DeleteOne(products, [id |-> productId]) :
         /\ products' = result.coll
         /\ reqs' = [reqs EXCEPT ![s] =
              Send([reqs[s] EXCEPT !.id = productId, !.qemail = sellerEmail],
                   200, "deleted", result.n)]
  /\ UNCHANGED <<users, nextUserId, nextProductId, clock, issued>>

\* app.delete("/products/:id", verifyToken, verifySeller, ...)
DeleteProduct(s) ==
  /\ InHandler(s, "deleteProduct")
  /\ \E productId \in ProductIdArg, sellerEmail \in EmailArg :
       \E result \in DeleteOne(products, [sellerEmail |-> sellerEmail, id |-> productId]) :
         /\ products' = result.coll
         /\ reqs' = [reqs EXCEPT ![s] =
              Send([reqs[s] EXCEPT !.id = productId, !.qemail = sellerEmail],
                   200, "deleted", result.n)]
  /\ UNCHANGED <<users, nextUserId, nextProductId, clock, issued>>

\* app.put("/products/:id", verifyToken, ...)
PutProduct(s) ==
  /\ InHandler(s, "putProduct")
  /\ \E productId \in ProductIdArg, update \in ProductUpdates :
       \E result \in UpdateOne(products, [id |-> productId], update) :
         /\ products' = result.coll
         /\ reqs' = [reqs EXCEPT ![s] =
              Send([Idle EXCEPT !.route = "putProduct", !.id = productId, !.body = update],
                   200, result.msg, result.n)]
  /\ UNCHANGED <<users, nextUserId, nextProductId, clock, issued>>

\* app.put("/products/advertisement/:id", verifyToken, verifySeller, ...)
PutAdvertisement(s) ==
  /\ InHandler(s, "putAdvertisement")
  /\ \E productId \in ProductIdArg, sellerEmail \in EmailArg :
       \E result \in UpdateOne(products, [sellerEmail |-> sellerEmail, id |-> productId],
                               [NoBody EXCEPT !.isAdvertised = Yes]) :
         /\ products' = result.coll
         /\ reqs' = [reqs EXCEPT ![s] =
              IF result.msg = "E11000"
                THEN Send([reqs[s] EXCEPT !.id = productId, !.qemail = sellerEmail],
                          0, "unhandled rejection", 0)
                ELSE Send([reqs[s] EXCEPT !.id = productId, !.qemail = sellerEmail],
                          200, result.msg, result.n)]
  /\ UNCHANGED <<users, nextUserId, nextProductId, clock, issued>>

\* app.get("/users/admin/:email", verifyToken, ...)
GetUsersAdmin(s) ==
  /\ InHandler(s, "getUsersAdmin")
  /\ \E email \in Emails :
       LET req == [Idle EXCEPT !.route = "getUsersAdmin", !.qemail = email]
       IN  \/ \E result \in Find(users, [email |-> email]) :
                reqs' = [reqs EXCEPT ![s] =
                  Send(req, 200, IF result.userRole = "admin" THEN Yes ELSE No, 0)]
           \/ /\ Find(users, [email |-> email]) = {}
              /\ reqs' = [reqs EXCEPT ![s] = Send(req, 200, No, 0)]
  /\ UNCHANGED <<users, products, nextUserId, nextProductId, clock, issued>>

\* app.put("/users/seller/:id", verifyToken, verifyAdmin, ...): usersCollection.updateOne
PutUsersSeller(s) ==
  /\ InHandler(s, "putUsersSeller")
  /\ \E userId \in UserIdArg, userEmail \in EmailArg, update \in UserUpdates :
       \E result \in UpdateOne(users, [id |-> userId], update) :
         /\ users' = result.coll
         /\ reqs' = [reqs EXCEPT ![s] =
              [Idle EXCEPT !.pc = "cascade", !.route = "putUsersSeller", !.id = userId,
                           !.qemail = userEmail, !.body = update,
                           !.msg = result.msg, !.n = result.n]]
  /\ UNCHANGED <<products, nextUserId, nextProductId, clock, issued>>

\* app.put("/users/seller/:id", ...): productsCollection.updateMany, then res.send(result)
PutUsersSellerCascade(s) ==
  /\ reqs[s].pc = "cascade"
  /\ LET result == UpdateMany(products, [sellerEmail |-> reqs[s].qemail], reqs[s].body,
                              nextProductId)
     IN  /\ result.msg = "upserted" => nextProductId <= MaxProducts
         /\ products' = result.coll
         /\ nextProductId' = IF result.msg = "upserted" THEN nextProductId + 1
                             ELSE nextProductId
  /\ reqs' = [reqs EXCEPT ![s] =
       Send([Idle EXCEPT !.route = "putUsersSeller"], 200, reqs[s].msg, reqs[s].n)]
  /\ UNCHANGED <<users, nextUserId, clock, issued>>

\* app.delete("/users/:id", verifyToken, verifyAdmin, ...)
DeleteUser(s) ==
  /\ InHandler(s, "deleteUser")
  /\ \E userId \in UserIdArg :
       \E result \in DeleteOne(users, [id |-> userId]) :
         /\ users' = result.coll
         /\ reqs' = [reqs EXCEPT ![s] =
              Send([Idle EXCEPT !.route = "deleteUser", !.id = userId], 200, "deleted", result.n)]
  /\ UNCHANGED <<products, nextUserId, nextProductId, clock, issued>>

\* faulty variant: only a missing role gets the default, an empty one is kept
DefaultRoleMissingOnly(user) ==
  IF user.userRole = Absent THEN [user EXCEPT !.userRole = "buyer"] ELSE user

\* the inserts still to come: each takes an _id out of the MaxUsers the model generates
PendingInserts == Cardinality({t \in Slots : reqs[t].pc = "insert"})

\* if (!user?.userRole) { user.userRole = "buyer"; }
DefaultRole(user) ==
  IF user.userRole \in {Absent, Empty} THEN [user EXCEPT !.userRole = "buyer"] ELSE user

\* faulty variant: no isExisting test, the insert always follows
PostUsersNoLookup(s) ==
  /\ Accepts(s)
  /\ \E body \in UserBodies :
       reqs' = [reqs EXCEPT ![s] =
         [Idle EXCEPT !.route = "postUsers", !.body = body, !.pc = "insert"]]
  /\ UNCHANGED <<users, products, nextUserId, nextProductId, clock, issued>>

\* app.post("/users", ...): findOne({ email: user?.email }) and the isExisting test
PostUsers(s) ==
  /\ Accepts(s)
  /\ \E body \in UserBodies :
       LET req == [Idle EXCEPT !.route = "postUsers", !.body = body]
       IN  /\ Find(users, [email |-> DefaultRole(body).email]) = {}
                => nextUserId + PendingInserts <= MaxUsers
           /\ reqs' = [reqs EXCEPT ![s] =
                IF Find(users, [email |-> DefaultRole(body).email]) # {}
                  THEN Send(req, 200, "User already exists!", 0)
                  ELSE [req EXCEPT !.pc = "insert"]]
  /\ UNCHANGED <<users, products, nextUserId, nextProductId, clock, issued>>

\* app.post("/users", ...): insertOne(user), then res.send(result)
PostUsersInsert(s) ==
  /\ reqs[s].pc = "insert"
  /\ nextUserId <= MaxUsers
  /\ users' = users \cup {NewDoc(nextUserId, DefaultRole(reqs[s].body))}
  /\ nextUserId' = nextUserId + 1
  /\ reqs' = [reqs EXCEPT ![s] = Send(reqs[s], 200, "inserted", 1)]
  /\ UNCHANGED <<products, nextProductId, clock, issued>>

\* app.get("/jwt", ...)
Jwt(s) ==
  /\ Accepts(s)
  /\ \E email \in EmailArg :
       LET req == [Idle EXCEPT !.route = "jwt", !.qemail = email]
       IN  IF Find(users, [email |-> email]) # {}
             THEN /\ Cardinality(issued \cup {JwtSign(email, clock)}) <= MaxTokens
                  /\ issued' = issued \cup {JwtSign(email, clock)}
                  /\ reqs' = [reqs EXCEPT ![s] =
                       Send([req EXCEPT !.auth = JwtSign(email, clock)], 200, "accessToken", 0)]
             ELSE /\ issued' = issued
                  /\ reqs' = [reqs EXCEPT ![s] = Send(req, 401, "Unauthorized access", 0)]
  /\ UNCHANGED <<users, products, nextUserId, nextProductId, clock>>

\* ------------------------------------------------------ specifications
\* registration: POST /users and GET /jwt, any number of requests in flight
UsersNext ==
  \E s \in Slots :
    \/ PostUsers(s)
    \/ PostUsersInsert(s)

SpecUsers == Init /\ [][UsersNext]_vars

\* token life time: one client, the routes that leave the products alone
TokenRoutes == {"getProducts", "getReported", "getUsersAdmin", "deleteUser"}

TokenNext ==
  \/ Tick
  \/ PostUsers(1)
  \/ PostUsersInsert(1)
  \/ Jwt(1)
  \/ \E route \in TokenRoutes : VerifyToken(1, route)
  \/ VerifyAdmin(1)
  \/ VerifySeller(1)
  \/ GetProducts(1)
  \/ GetReported(1)
  \/ GetUsersAdmin(1)
  \/ DeleteUser(1)

SpecToken == Init /\ [][TokenNext]_vars

\* a store that already holds both users, each with a token in hand
InitSeeded ==
  /\ \E ra \in Roles, rb \in Roles :
       users = {NewDoc(1, [NoBody EXCEPT !.email = "a@x", !.userRole = ra]),
                NewDoc(2, [NoBody EXCEPT !.email = "b@x", !.userRole = rb])}
  /\ products = {}
  /\ nextUserId = 3
  /\ nextProductId = 1
  /\ clock = 0
  /\ issued = {JwtSign(e, 0) : e \in Emails}
  /\ reqs = [s \in Slots |-> Idle]

\* roles: role updates and deletions by the admins, and the role-gated routes
RoleRoutes == {"putUsersSeller", "deleteUser", "getProducts"}

RolesNext ==
  \/ \E route \in RoleRoutes : VerifyToken(1, route)
  \/ VerifyAdmin(1)
  \/ VerifySeller(1)
  \/ GetProducts(1)
  \/ PutUsersSeller(1)
  \/ PutUsersSellerCascade(1)
  \/ DeleteUser(1)

SpecRoles == InitSeeded /\ [][RolesNext]_vars

\* products: the sellers' routes and the admin's delete
ProductRoutes == {"postProducts", "getProducts", "deleteProduct", "putAdvertisement",
                  "deleteReported"}

ProductsNext ==
  \/ \E route \in ProductRoutes : VerifyToken(1, route)
  \/ VerifyAdmin(1)
  \/ VerifySeller(1)
  \/ PostProducts(1)
  \/ GetProducts(1)
  \/ DeleteProduct(1)
  \/ PutAdvertisement(1)
  \/ DeleteReported(1)

SpecProducts == InitSeeded /\ [][ProductsNext]_vars

\* the cascade of a role update onto the products
CascadeRoutes == {"postProducts", "putProduct", "getReported", "putUsersSeller"}

CascadeNext ==
  \/ \E route \in CascadeRoutes : VerifyToken(1, route)
  \/ VerifyAdmin(1)
  \/ VerifySeller(1)
  \/ PostProducts(1)
  \/ PutProduct(1)
  \/ GetReported(1)
  \/ PutUsersSeller(1)
  \/ PutUsersSellerCascade(1)

SpecCascade == InitSeeded /\ [][CascadeNext]_vars


\* ------------------------------------------------------------- claims
\* a request enters the chain of a protected route in this step
Arrives(s) == Free(s) /\ reqs'[s] # reqs[s] /\ reqs'[s].route \in ProtectedRoutes

\* a POST /users request does its lookup in this step
PostStep(s) == Free(s) /\ reqs'[s] # reqs[s] /\ reqs'[s].route = "postUsers"

\* a GET /jwt request is served in this step
JwtStep(s) == Free(s) /\ reqs'[s] # reqs[s] /\ reqs'[s].route = "jwt"

HasRole(email, role) == \E u \in users : u.email = email /\ u.userRole = role

\* C1: on a protected route a request without Authorization header is answered 401
\* and one with an invalid or expired token 403, the chain stops there and the
\* collections stay as they were; only a valid, unexpired token goes on, with its
\* email attached to the request.
C1_RequireAuth ==
  [][\A s \in Slots : Arrives(s) =>
       LET h == reqs'[s].auth
           r == reqs'[s]
       IN  /\ h.kind = "none" => r.pc = "done" /\ r.status = 401
           /\ (h.kind = "garbage" \/ (h.kind = "token" /\ clock >= h.iat + TokenTTL))
                => r.pc = "done" /\ r.status = 403
           /\ r.pc = "done" => users' = users /\ products' = products
           /\ r.pc # "done" => /\ h \in issued
                               /\ clock < h.iat + TokenTTL
                               /\ r.decoded = h.email
                               /\ r.pc = IF Routes[r.route].role = Absent
                                           THEN "handler" ELSE "role"]_vars

C1_Witness ==
  \E s \in Slots : /\ reqs[s].pc = "done"
                   /\ reqs[s].route \in ProtectedRoutes
                   /\ reqs[s].status = 403
                   /\ reqs[s].auth.kind = "garbage"
                   /\ users # {}

\* C2: a role-gated request reaches its handler only from the role check, and only
\* if at that moment a user record under the token's email has the required role;
\* if none has, the answer is 403 and no collection changes.
C2_RequireRole ==
  [][\A s \in Slots :
       /\ (reqs[s].pc = "role" /\ reqs'[s] # reqs[s]) =>
            (~HasRole(reqs[s].decoded, Routes[reqs[s].route].role) =>
               /\ reqs'[s].pc = "done"
               /\ reqs'[s].status = 403
               /\ users' = users
               /\ products' = products)
       /\ ( /\ reqs'[s].pc = "handler"
            /\ reqs[s] # reqs'[s]
            /\ Routes[reqs'[s].route].role # Absent ) =>
            /\ reqs[s].pc = "role"
            /\ reqs[s].route = reqs'[s].route
            /\ HasRole(reqs[s].decoded, Routes[reqs[s].route].role)]_vars

\* a token of a user whose record was deleted after the token was issued is turned away
C2_Witness ==
  \E s \in Slots : /\ reqs[s].pc = "done"
                   /\ reqs[s].status = 403
                   /\ reqs[s].auth.kind = "token"
                   /\ reqs[s].route = "putUsersSeller"
                   /\ \A u \in users : u.email # reqs[s].auth.email

\* C3: POST /users with an email that already has a record answers 200
\* "User already exists!" and leaves the users collection as it was.
C3_ExistingUser ==
  [][\A s \in Slots :
       (PostStep(s) /\ \E u \in users : u.email = reqs'[s].body.email) =>
         /\ reqs'[s].pc = "done"
         /\ reqs'[s].status = 200
         /\ reqs'[s].msg = "User already exists!"
         /\ users' = users]_vars

C3_Witness ==
  \E s \in Slots : /\ reqs[s].pc = "done"
                   /\ reqs[s].msg = "User already exists!"
                   /\ reqs[s].body.userRole = "admin"
                   /\ \E u \in users : u.email = reqs[s].body.email /\ u.userRole = "buyer"

\* C4: the users collection holds at most one record per email.
C4_UniqueEmail ==
  \A u1 \in users, u2 \in users : u1.email = u2.email => u1 = u2

\* C5: GET /jwt?email=X answers 401 and issues nothing when no record has email X,
\* else it returns a token with claim email=X; requireAuth accepts that token
\* earlier than TokenTTL hours after issue and answers 403 from then on.
C5_TokenLife ==
  [][\A s \in Slots :
       /\ JwtStep(s) =>
            LET X == reqs'[s].qemail
                t == reqs'[s].auth
            IN  IF \E u \in users : u.email = X
                  THEN /\ reqs'[s].status = 200
                       /\ t.kind = "token" /\ t.email = X /\ t.iat = clock
                       /\ t \in issued'
                  ELSE /\ reqs'[s].status = 401
                       /\ t.kind = "none"
                       /\ issued' = issued
       /\ (Arrives(s) /\ reqs'[s].auth.kind = "token") =>
            IF clock < reqs'[s].auth.iat + TokenTTL
              THEN reqs'[s].pc # "done" /\ reqs'[s].decoded = reqs'[s].auth.email
              ELSE reqs'[s].pc = "done" /\ reqs'[s].status = 403]_vars

\* a token presented exactly TokenTTL hours after its issue is rejected
C5_Witness ==
  \E s \in Slots : /\ reqs[s].pc = "done"
                   /\ reqs[s].route = "getUsersAdmin"
                   /\ reqs[s].status = 403
                   /\ reqs[s].auth.kind = "token"
                   /\ clock = reqs[s].auth.iat + TokenTTL

\* C6: when PUT /users/seller/:id with a body setting the role to "seller" has
\* completed, every product whose sellerEmail is the email of the user :id names
\* carries the update, and no other product has changed.
C6_Cascade ==
  [][\A s \in Slots :
       ( /\ reqs[s].pc = "cascade"
         /\ reqs'[s].pc = "done"
         /\ reqs[s].body.userRole = "seller" ) =>
         LET target == {u.email : u \in {v \in users : v.id = reqs[s].id}}
         IN  products' = {IF p.sellerEmail \in target THEN SetFields(p, reqs[s].body) ELSE p :
                            p \in products}]_vars

C8_NewUser ==
  [][\A s \in Slots :
       /\ (PostStep(s) /\ ~\E u \in users : u.email = reqs'[s].body.email) =>
            reqs'[s].pc = "insert"
       /\ (reqs[s].pc = "insert" /\ reqs'[s] # reqs[s]) =>
            /\ reqs'[s].pc = "done"
            /\ reqs'[s].status = 200
            /\ \E u \in users' :
                 /\ u \notin users
                 /\ users' = users \cup {u}
                 /\ u.email = reqs[s].body.email
                 /\ u.userRole = IF reqs[s].body.userRole \in {Absent, Empty}
                                   THEN "buyer" ELSE reqs[s].body.userRole]_vars

C8_Witness ==
  \E s \in Slots : /\ reqs[s].pc = "done"
                   /\ reqs[s].msg = "inserted"
                   /\ reqs[s].body.userRole = Empty
                   /\ \E u \in users : u.email = reqs[s].body.email /\ u.userRole = "buyer"

\* C9: DELETE /products/:id and PUT /products/advertisement/:id remove or modify
\* a product only when the email of the caller's token is its sellerEmail, and
\* neither adds a product record.
C9_OwnerOnly ==
  [][\A s \in Slots :
       ( /\ InHandler(s, "deleteProduct") \/ InHandler(s, "putAdvertisement")
         /\ reqs'[s] # reqs[s] ) =>
         /\ \A p \in products \ products' : p.sellerEmail = reqs[s].decoded
         /\ \A p \in products' \ products : \E q \in products : q.id = p.id]_vars

\* C10: from a users collection without admin no request sequence produces a
\* user record with role admin, and none passes requireRole(admin).
C10_NoEscalation ==
  /\ \A u \in users : u.userRole # "admin"
  /\ \A s \in Slots : ~( /\ reqs[s].pc = "handler"
                         /\ Routes[reqs[s].route].role = "admin" )

====
